---- MODULE Spec2Model ----
(***************************************************************************)
(* Model of the login command of the RESTful interface tool                *)
(* (src/extensions/COMMANDS/LoginCommand.py).                              *)
(*                                                                         *)
(* One LoginCommand object lives as long as the tool; every invocation of  *)
(* run() on it is a sequence of steps (parse, loginvalidation, the first   *)
(* login call, the OTP retry, the post-login part, the guard of run()).    *)
(* The steps are separated where the code talks to a collaborator whose    *)
(* answer it does not control: the password prompt, the session client's   *)
(* login, the OTP prompt, the select operation.                            *)
(***************************************************************************)
EXTENDS Naturals, Sequences, FiniteSets, TLC

(***************************************************************************)
(* Python values.  None is Python's None, Absent stands for an attribute   *)
(* or a dictionary key that does not exist, and text is a TLA+ string.     *)
(***************************************************************************)
None == "None"

Absent == "Absent"

\* Python truth of an optional text: None and the empty string are false;
\* a missing attribute read with getattr(o, name, False) is false too.
Truthy(v) == v \notin {None, "", Absent}

\* hasattr(options, name)
HasAttr(o, name) == o[name] # Absent

\* getattr(options, name, False): the value, or False (not truthy) when missing
GetAttr(o, name) == IF HasAttr(o, name) THEN o[name] ELSE None

(***************************************************************************)
(* URLs are sequences of tokens, so that "https://" in url and the         *)
(* prefixing of line 313 are computed and not assumed.                     *)
(***************************************************************************)
HTTPS == "https://"

Contains(url, tok) == \E i \in 1..Len(url) : url[i] = tok

VNIC_URL == <<HTTPS, "16.1.15.1">>

BLOBSTORE_URL == <<"blobstore://", ".">>

\* lines 309-313: the positional argument, prefixed when it has no https://
NormalizeUrl(arg) == IF ~Contains(arg, HTTPS) THEN <<HTTPS>> \o arg ELSE arg

(***************************************************************************)
(* Encryption.decode_credentials(...).decode("utf-8"), lines 292-293: the  *)
(* transform lives in rdmc_helper; it turns an encoded text into another   *)
(* text and cannot be applied to None.                                     *)
(***************************************************************************)
CanDecode(v) == v # None

Decode(v) == CASE v = "enc(admin)" -> "admin"
               [] v = "enc(secret)" -> "secret"
               [] OTHER -> "garbled"

\* getpass.getpass().rstrip(), line 279, on the typed lines of the model
RStrip(s) == CASE s = " " -> ""
               [] s = "typed " -> "typed"
               [] OTHER -> s

(***************************************************************************)
(* State.                                                                  *)
(***************************************************************************)
VARIABLES
    self,        \* the command object's fields set in __init__, lines 75-82
    cli,         \* what this invocation was given: line, parsed options,
                 \* positional arguments, global options, environment,
                 \* persisted configuration
    options,     \* the options object, which loginvalidation writes to
    pc,          \* where the invocation stands
    local,       \* loginfunction's locals: the resolved proxy `_`, no_bundle,
                 \* user_ca_cert_data, the state of the login attempt
    logins,      \* the login calls made to the session client, in order
    io,          \* what the invocation did to its collaborators
    result,      \* how run() ended
    visited,     \* rdmc.app.monolith._visited_urls is non-empty
    invocations  \* number of invocations started on this object

vars == <<self, cli, options, pc, local, logins, io, result, visited, invocations>>

\* Number of invocations of run() on one command object.
MaxInvocations == 2

(***************************************************************************)
(* The inputs of one invocation.                                           *)
(***************************************************************************)
HOST == <<"ilo.example">>

HOST_HTTPS == <<HTTPS, "ilo.example">>

CFG_URL == <<HTTPS, "cfg.example">>

\* A URL that is None or empty (both are false in Python).
NoUrl == <<>>

\* The parsed options when nothing is given on the command line.
DefaultOptions ==
    [user |-> None, password |-> None, biospassword |-> None,
     sessionid |-> None, login_otp |-> None, waitforOTP |-> FALSE,
     force_vnic |-> FALSE, encode |-> FALSE, selector |-> None,
     ca_cert_bundle |-> None, user_certificate |-> None,
     user_root_ca_key |-> None, user_root_ca_password |-> None,
     path |-> None, includelogs |-> FALSE,
     username |-> Absent]   \* the parser defines no attribute `username`

\* An empty persisted configuration (rdmc.config).
DefaultConfig ==
    [username |-> None, password |-> None, url |-> NoUrl, proxy |-> None,
     user_cert |-> None, user_root_ca_key |-> None,
     user_root_ca_password |-> None]

\* The process environment (os.environ) without proxy variables.
DefaultEnviron == [https_proxy |-> Absent, http_proxy |-> Absent]

DefaultCli ==
    [help_disp |-> FALSE, help_in_line |-> FALSE, parse_ok |-> TRUE,
     args |-> <<>>, options |-> DefaultOptions, proxy |-> None,
     is_redfish |-> FALSE, json |-> FALSE,
     environ |-> DefaultEnviron, config |-> DefaultConfig]

\* The target: where the login goes, with and without credentials.
TargetInputs ==
    { [DefaultCli EXCEPT !.args = a,
                         !.options.user = up[1], !.options.password = up[2],
                         !.options.force_vnic = v,
                         !.config.username = cup[1],
                         !.config.password = cup[2],
                         !.config.url = url] :
        a \in {<<>>, <<HOST>>},
        up \in {<<None, None>>, <<"admin", "secret">>},
        v \in BOOLEAN,
        cup \in {<<None, None>>, <<"cfguser", "cfgpass">>},
        url \in {NoUrl, CFG_URL} }

\* Credentials: who logs in, from the command line and the configuration.
CredentialInputs ==
    { [DefaultCli EXCEPT !.args = <<HOST>>,
                         !.options.user = u, !.options.password = p,
                         !.options.force_vnic = v, !.options.sessionid = s,
                         !.config.username = cu, !.config.password = cp] :
        u \in {None, "admin"}, p \in {None, "secret"},
        v \in BOOLEAN, s \in {None, "sid"},
        cu \in {None, "cfguser"}, cp \in {None, "cfgpass"} }

\* Certificate material given on the command line.
CertificateInputs ==
    { [DefaultCli EXCEPT !.args = a, !.options.user = u,
                         !.options.force_vnic = v,
                         !.options.ca_cert_bundle = b,
                         !.options.user_certificate = c,
                         !.options.user_root_ca_key = k,
                         !.options.user_root_ca_password = kp] :
        a \in {<<>>, <<HOST_HTTPS>>}, u \in {None, "admin"}, v \in BOOLEAN,
        b \in {None, "bundle.pem"}, c \in {None, "cert.pem"},
        k \in {None, "key.pem"}, kp \in {None, "keypass"} }

\* Certificate attributes the parser does not define, and the configuration
\* that stands in for them.
ConfiguredCertificateInputs ==
    { [DefaultCli EXCEPT !.args = a, !.options.user = u,
                         !.options.user_certificate = c,
                         !.options.user_root_ca_key = k,
                         !.options.user_root_ca_password = kp,
                         !.config.user_cert = cfg[1],
                         !.config.user_root_ca_key = cfg[2],
                         !.config.user_root_ca_password = cfg[3]] :
        a \in {<<>>, <<HOST_HTTPS>>}, u \in {None, "admin"},
        c \in {Absent, None}, k \in {Absent, None}, kp \in {Absent, None},
        cfg \in { <<None, None, None>>, <<"cfgcert.pem", None, None>>,
                  <<None, "cfgkey.pem", None>>, <<None, None, "cfgkeypass">> } }

\* Proxy sources: --useproxy, the environment, the configuration.
ProxyInputs ==
    { [DefaultCli EXCEPT !.proxy = cp, !.environ.https_proxy = hs,
                         !.environ.http_proxy = h, !.config.proxy = c] :
        cp \in {None, "proxyCLI"}, hs \in {Absent, "", "proxyA"},
        h \in {Absent, "", "proxyB"}, c \in {None, "proxyC"} }

\* One-time passcode, selector and the other options handed through.
SessionInputs ==
    { [DefaultCli EXCEPT !.args = a, !.options.user = up[1],
                         !.options.password = up[2],
                         !.options.waitforOTP = w, !.options.login_otp = o,
                         !.options.selector = sel,
                         !.options.biospassword = pl[5],
                         !.options.path = pl[1],
                         !.options.includelogs = pl[2],
                         !.is_redfish = pl[3], !.json = pl[4]] :
        a \in {<<>>, <<HOST>>}, up \in {<<None, None>>, <<"admin", "secret">>},
        w \in BOOLEAN, o \in {None, "111111"},
        sel \in {None, "Bios."},
        pl \in {<<None, FALSE, FALSE, FALSE, None>>,
                <<"/redfish/v1/", TRUE, TRUE, TRUE, "biospw">>} }

\* Encoded credentials, the help flag and lines the parser rejects.
ParseInputs ==
    { [DefaultCli EXCEPT !.help_disp = hd, !.help_in_line = h,
                         !.parse_ok = ok, !.args = a,
                         !.options.encode = e, !.options.user = up[1],
                         !.options.password = up[2]] :
        hd \in BOOLEAN, h \in BOOLEAN, ok \in BOOLEAN,
        a \in {<<>>, <<HOST>>}, e \in BOOLEAN,
        up \in {<<None, None>>, <<"enc(admin)", "enc(secret)">>,
                <<"enc(admin)", None>>} }

Inputs == TargetInputs \cup CredentialInputs \cup CertificateInputs
            \cup ConfiguredCertificateInputs \cup ProxyInputs
            \cup SessionInputs \cup ParseInputs

(***************************************************************************)
(* Construction, and the entry of run().                                   *)
(***************************************************************************)
NoLocals ==
    [proxy |-> None, no_bundle |-> FALSE,
     user_ca_cert_data |-> [ca_certs |-> Absent, cert_file |-> Absent,
                            key_file |-> Absent, key_password |-> Absent],
     attempt |-> "INIT"]

\* What an invocation did to its collaborators: prompts shown and what was
\* typed at them, the probe, the answers of the login calls, select and
\* logout calls, and the messages printed.
NoIo == [getpass |-> 0, getpass_typed |-> None, otp_input |-> 0,
         otp_typed |-> None, probe |-> "none", answers |-> <<>>,
         select |-> 0, selected |-> "none", logout |-> 0, printed |-> {}]

\* The fields of a command object as __init__ leaves them, lines 75-82.
Constructed ==
    [url |-> NoUrl, username |-> None, password |-> None,
     sessionid |-> None, biospassword |-> None, login_otp |-> None]

Init ==
    /\ self = Constructed
    /\ cli = DefaultCli
    /\ options = DefaultOptions
    /\ pc = "idle"
    /\ local = NoLocals
    /\ logins = <<>>
    /\ io = NoIo
    /\ result = "none"
    /\ visited = FALSE
    /\ invocations = 0

\* How run() ends before loginvalidation is reached, or "none" when it goes
\* on: the help display of lines 92-94, and the parse of lines 120-126 with
\* the check of lines 98-99 after a loginfunction that returned at line 124.
EarlyResult(i) ==
    IF i.help_disp THEN "SUCCESS"
    ELSE IF ~i.parse_ok
         THEN IF i.help_in_line THEN "SUCCESS" ELSE "InvalidCommandLineError"
         ELSE "none"

\* run(line, help_disp) up to the call of loginvalidation.
Run(i) ==
    /\ pc = "idle"
    /\ invocations < MaxInvocations
    /\ invocations' = invocations + 1
    /\ cli' = i
    /\ options' = i.options
    /\ local' = NoLocals
    /\ logins' = <<>>
    /\ io' = IF i.help_disp THEN [NoIo EXCEPT !.printed = {"help"}] ELSE NoIo
    /\ result' = EarlyResult(i)
    /\ pc' = IF EarlyResult(i) = "none" THEN "loginvalidation" ELSE "done"
    /\ UNCHANGED <<self, visited>>

(***************************************************************************)
(* loginvalidation, lines 249-325.                                         *)
(***************************************************************************)
\* lines 258-267: fill user name, password and certificate fields from the
\* configuration; a certificate field is filled only when the attribute
\* does not exist.
FillFromConfig(o, cfg) ==
    [o EXCEPT
       !.user = IF ~Truthy(@) THEN cfg.username ELSE @,
       !.password = IF ~Truthy(@) THEN cfg.password ELSE @,
       !.user_certificate = IF @ = Absent THEN cfg.user_cert ELSE @,
       !.user_root_ca_key = IF @ = Absent THEN cfg.user_root_ca_key ELSE @,
       !.user_root_ca_password =
           IF @ = Absent THEN cfg.user_root_ca_password ELSE @]

\* lines 269-277: the condition of the interactive password entry
NeedsPrompt(o) ==
    /\ Truthy(o.user)
    /\ ~Truthy(o.password)
    /\ \/ ~HasAttr(o, "user_certificate")
       \/ ~HasAttr(o, "user_root_ca_key")
       \/ HasAttr(o, "user_root_ca_password")

\* Prompted with an empty answer let through.
PromptedLetsEmptyThrough(o, typed) ==
    IF ~NeedsPrompt(o) THEN [options |-> o, err |-> "none", getpass |-> 0]
    ELSE IF Truthy(RStrip(typed))
         THEN [options |-> [o EXCEPT !.password = RStrip(typed)],
               err |-> "none", getpass |-> 1]
         ELSE [options |-> o, err |-> "none", getpass |-> 1]

\* lines 279-283: the password typed at the prompt, stripped; empty is an error
Prompted(o, typed) ==
    IF ~NeedsPrompt(o) THEN [options |-> o, err |-> "none", getpass |-> 0]
    ELSE IF Truthy(RStrip(typed))
         THEN [options |-> [o EXCEPT !.password = RStrip(typed)],
               err |-> "none", getpass |-> 1]
         ELSE [options |-> o, err |-> "InvalidCommandLineError", getpass |-> 1]

\* lines 285-289: the object keeps what the options hold, and only that
Retain(s, o) ==
    [s EXCEPT !.username = IF Truthy(o.user) THEN o.user ELSE @,
              !.password = IF Truthy(o.password) THEN o.password ELSE @]

\* lines 291-293: the retained pair decoded, user name first; decoding None
\* raises, after the user name was replaced when that one could be decoded
Decoded(s, o) ==
    IF ~o.encode THEN [self |-> s, err |-> "none"]
    ELSE IF ~CanDecode(s.username) THEN [self |-> s, err |-> "TypeError"]
    ELSE IF ~CanDecode(s.password)
         THEN [self |-> [s EXCEPT !.username = Decode(@)], err |-> "TypeError"]
         ELSE [self |-> [s EXCEPT !.username = Decode(@),
                                  !.password = Decode(@)], err |-> "none"]

\* lines 295-296
RetainBios(s, o) ==
    [s EXCEPT !.biospassword = IF Truthy(o.biospassword) THEN o.biospassword
                               ELSE @]

\* VnicRefused with `or` for `and` in the test of the retained pair.
VnicRefusedEitherOfPair(s, o) ==
    /\ ~(Truthy(GetAttr(o, "ca_cert_bundle"))
           \/ Truthy(GetAttr(o, "user_certificate")))
    /\ ~(Truthy(s.username) \/ Truthy(s.password))
    /\ ~Truthy(o.sessionid)

\* lines 300-302: with --force_vnic, credentials are asked for unless a CA
\* bundle or a user certificate is given
VnicRefused(s, o) ==
    /\ ~(Truthy(GetAttr(o, "ca_cert_bundle"))
           \/ Truthy(GetAttr(o, "user_certificate")))
    /\ ~(Truthy(s.username) /\ Truthy(s.password))
    /\ ~Truthy(o.sessionid)

\* lines 315-321: the check of user name and password for a given URL
UrlCredentialError(o) ==
    IF ~(\/ HasAttr(o, "user_certificate")
         \/ HasAttr(o, "user_root_ca_key")
         \/ HasAttr(o, "user_root_ca_password"))
    THEN IF ~HasAttr(o, "username") THEN "AttributeError"
         ELSE IF ~(Truthy(o.username) /\ Truthy(o.password))
              THEN "InvalidCommandLineError"
              ELSE "none"
    ELSE "none"

\* Target with the credentials check of lines 300-302 made whether or not
\* --force_vnic is given.
TargetChecksCredentialsAlways(s, o, cfg, args) ==
    IF VnicRefused(s, o)
    THEN [self |-> s, err |-> "UsernamePasswordRequiredError"]
    ELSE LET s1 == [s EXCEPT !.url = IF o.force_vnic THEN VNIC_URL
                                     ELSE BLOBSTORE_URL]
         IN  IF args # <<>>
             THEN [self |-> [s1 EXCEPT !.url = NormalizeUrl(args[1])],
                   err |-> UrlCredentialError(o)]
             ELSE [self |-> [s1 EXCEPT !.url = IF cfg.url # NoUrl THEN cfg.url
                                                ELSE @],
                   err |-> "none"]

\* lines 298-325: the target; the URL argument wins over the configured URL,
\* which wins over the address chosen at lines 303 and 305
Target(s, o, cfg, args) ==
    IF o.force_vnic /\ VnicRefused(s, o)
    THEN [self |-> s, err |-> "UsernamePasswordRequiredError"]
    ELSE LET s1 == [s EXCEPT !.url = IF o.force_vnic THEN VNIC_URL
                                     ELSE BLOBSTORE_URL]
         IN  IF args # <<>>
             THEN [self |-> [s1 EXCEPT !.url = NormalizeUrl(args[1])],
                   err |-> UrlCredentialError(o)]
             ELSE [self |-> [s1 EXCEPT !.url = IF cfg.url # NoUrl THEN cfg.url
                                                ELSE @],
                   err |-> "none"]

\* The whole of loginvalidation: the object and the options it leaves, the
\* error it raises ("none" when it returns) and whether it prompted.
Validation(s, o, cfg, args, typed) ==
    LET p == Prompted(FillFromConfig(o, cfg), typed)
        d == Decoded(Retain(s, p.options), p.options)
        t == Target(RetainBios(d.self, p.options), p.options, cfg, args)
    IN  IF p.err # "none"
        THEN [self |-> s, options |-> p.options, err |-> p.err,
              getpass |-> p.getpass]
        ELSE IF d.err # "none"
        THEN [self |-> d.self, options |-> p.options, err |-> d.err,
              getpass |-> p.getpass]
        ELSE [self |-> t.self, options |-> p.options, err |-> t.err,
              getpass |-> p.getpass]

\* What may be typed at the password prompt.
TypedPasswords == {"", " ", "typed "}

\* loginfunction line 128.
LoginValidation ==
    /\ pc = "loginvalidation"
    /\ \E typed \in TypedPasswords :
         LET v == Validation(self, options, cli.config, cli.args, typed)
         IN  /\ self' = v.self
             /\ options' = v.options
             /\ io' = [io EXCEPT !.getpass = v.getpass,
                                 !.getpass_typed = IF v.getpass = 1 THEN typed
                                                   ELSE @]
             /\ result' = v.err
             /\ pc' = IF v.err = "none" THEN "login" ELSE "done"
    /\ UNCHANGED <<cli, local, logins, visited, invocations>>

(***************************************************************************)
(* loginfunction, lines 130-247.                                           *)
(***************************************************************************)
\* lines 133-140: the value assigned to `_`
ResolvedProxy(i) ==
    IF Truthy(i.proxy) THEN i.proxy
    ELSE IF i.environ.https_proxy # Absent /\ Truthy(i.environ.https_proxy)
         THEN i.environ.https_proxy
    ELSE IF i.environ.http_proxy # Absent /\ Truthy(i.environ.http_proxy)
         THEN i.environ.http_proxy
    ELSE i.config.proxy

\* The proxy argument of the login calls, lines 187, 206 and 222.
LoginProxy(i) == i.proxy

\* The attributes of a Python dict; its keys are not among them.
DictAttributes == {"pop", "update", "get", "keys", "values", "items", "clear",
                   "copy", "setdefault", "popitem", "fromkeys"}

\* NoBundle with only the user certificate looked at.
NoBundleCertificateOnly(o) == Truthy(GetAttr(o, "user_certificate"))

\* lines 148-156: a certificate field with a value switches no_bundle on
NoBundle(o) ==
    \/ Truthy(GetAttr(o, "user_certificate"))
    \/ Truthy(GetAttr(o, "user_root_ca_key"))
    \/ Truthy(GetAttr(o, "user_root_ca_password"))

\* UserCaCertData with the removal of line 159 testing the key "ca_certs"
\* of the dictionary instead of its attribute.
UserCaCertDataPopsKey(o) ==
    LET filled ==
          [ca_certs |-> IF Truthy(GetAttr(o, "ca_cert_bundle"))
                        THEN o.ca_cert_bundle ELSE Absent,
           cert_file |-> IF Truthy(GetAttr(o, "user_certificate"))
                         THEN o.user_certificate ELSE Absent,
           key_file |-> IF Truthy(GetAttr(o, "user_root_ca_key"))
                        THEN o.user_root_ca_key ELSE Absent,
           key_password |-> IF Truthy(GetAttr(o, "user_root_ca_password"))
                            THEN o.user_root_ca_password ELSE Absent]
    IN  IF ~NoBundle(o) /\ filled.ca_certs # Absent
        THEN [filled EXCEPT !.ca_certs = Absent]
        ELSE filled

\* lines 144-160: user_ca_cert_data; a key the dictionary lacks is Absent
UserCaCertData(o) ==
    LET filled ==
          [ca_certs |-> IF Truthy(GetAttr(o, "ca_cert_bundle"))
                        THEN o.ca_cert_bundle ELSE Absent,
           cert_file |-> IF Truthy(GetAttr(o, "user_certificate"))
                         THEN o.user_certificate ELSE Absent,
           key_file |-> IF Truthy(GetAttr(o, "user_root_ca_key"))
                        THEN o.user_root_ca_key ELSE Absent,
           key_password |-> IF Truthy(GetAttr(o, "user_root_ca_password"))
                            THEN o.user_root_ca_password ELSE Absent]
    IN  IF ~NoBundle(o) /\ "ca_certs" \in DictAttributes
        THEN [filled EXCEPT !.ca_certs = Absent]
        ELSE filled

\* The keyword arguments of rdmc.app.login, as written at lines 177-191,
\* 196-210 and 212-226.
LoginRequest(s, o, i, l) ==
    [username |-> s.username, password |-> s.password,
     sessionid |-> s.sessionid, base_url |-> s.url, path |-> o.path,
     skipbuild |-> None,   \* run() calls loginfunction(line): the default
     includelogs |-> o.includelogs, biospassword |-> s.biospassword,
     is_redfish |-> i.is_redfish, proxy |-> LoginProxy(i),
     user_ca_cert_data |-> l.user_ca_cert_data, json_out |-> i.json,
     login_otp |-> s.login_otp]

\* What a login call of the session client may answer.
LoginOutcomes == {"ok", "OneTimePasscodeError", "ServerDownOrUnreachableError",
                  "OtherError"}

\* lines 165-170: the probe of args[0]; without an argument the index error
\* is swallowed like a refused connection
ProbeOutcomes(args) == IF args = <<>> THEN {"noarg"} ELSE {"ok", "fail"}

\* Handler with the OTP retry not guarded by --wait_for_otp.
HandlerIgnoresWaitFlag(o, outcome, first) ==
    IF outcome = "OneTimePasscodeError" /\ first THEN "otp"
    ELSE IF outcome = "ServerDownOrUnreachableError" THEN "report"
    ELSE IF outcome = "ok" THEN "return"
    ELSE "raise"

\* Handler with the OTP retry written as a loop: every OTP challenge is
\* answered by another prompt.
HandlerRetriesAgain(o, outcome, first) ==
    IF outcome = "OneTimePasscodeError" /\ o.waitforOTP THEN "otp"
    ELSE IF outcome = "ServerDownOrUnreachableError" THEN "report"
    ELSE IF outcome = "ok" THEN "return"
    ELSE "raise"

\* The handler a failed login call of the try block of lines 162-226 ends in:
\* the retry of line 192 (first call only, with --wait_for_otp), the report
\* of line 227, or none.
Handler(o, outcome, first) ==
    IF outcome = "OneTimePasscodeError" /\ first /\ o.waitforOTP THEN "otp"
    ELSE IF outcome = "ServerDownOrUnreachableError" THEN "report"
    ELSE IF outcome = "ok" THEN "return"
    ELSE "raise"

UnreachableMessage == "The following error occurred during login"

\* Where the invocation goes after a login call, by the handler it ends in.
PcAfter(h) == CASE h = "otp" -> "otp"
                [] h = "raise" -> "done"
                [] OTHER -> "postlogin"

\* The state of the login attempt after a login call.
AttemptAfter(h) == CASE h = "return" -> "AUTHENTICATED"
                     [] h = "report" -> "FAILED"
                     [] h = "otp" -> "AWAIT_OTP"
                     [] OTHER -> "RAISED"

\* line 228: the report of an unreachable server
Reported(h) == IF h = "report" THEN {UnreachableMessage} ELSE {}

\* ProbeError with a failed probe raised instead of passed over.
ProbeErrorSurfaces(probe) == IF probe = "ok" THEN "none" ELSE "OtherError"

\* lines 165-170: whatever the probe raises is caught by the bare except
ProbeError(probe) == "none"

\* lines 130-191 and 212-226: proxy, certificate data, probe and first login
\* call, as the values the step leaves behind, for a probe that ended in
\* `probe`, a login call answered by `outcome`, and `built` saying whether
\* the client visited a path
LoginStep(probe, outcome, built) ==
    LET s == [self EXCEPT !.sessionid = options.sessionid,
                          !.login_otp = options.login_otp]
        l == [local EXCEPT !.proxy = ResolvedProxy(cli),
                           !.no_bundle = NoBundle(options),
                           !.user_ca_cert_data = UserCaCertData(options)]
        h == Handler(options, outcome, TRUE)
        vnic == IF options.force_vnic THEN {"Attempt to login with Vnic"}
                ELSE {}
    IN  IF ProbeError(probe) # "none"
        THEN [self |-> self, logins |-> logins,
              io |-> [io EXCEPT !.probe = probe, !.printed = @ \cup vnic],
              pc |-> "done", result |-> ProbeError(probe),
              visited |-> visited,
              local |-> [l EXCEPT !.attempt = "RAISED"]]
        ELSE [self |-> s,
              logins |-> Append(logins, LoginRequest(s, options, cli, l)),
              io |-> [io EXCEPT !.probe = probe,
                                !.answers = Append(@, outcome),
                                !.printed = (@ \cup vnic) \cup Reported(h)],
              pc |-> PcAfter(h),
              result |-> IF h = "raise" THEN outcome ELSE "none",
              visited |-> IF h = "return" THEN built ELSE visited,
              local |-> [l EXCEPT !.attempt = AttemptAfter(h)]]

Login ==
    /\ pc = "login"
    /\ \E probe \in ProbeOutcomes(cli.args), outcome \in LoginOutcomes,
          built \in BOOLEAN :
         LET n == LoginStep(probe, outcome, built)
         IN  /\ self' = n.self
             /\ logins' = n.logins
             /\ io' = n.io
             /\ pc' = n.pc
             /\ result' = n.result
             /\ visited' = n.visited
             /\ local' = n.local
    /\ UNCHANGED <<cli, options, invocations>>

\* What may be typed at the OTP prompt.
TypedOtps == {"222222"}

\* OtpEntered with the answer of the prompt not stored.
OtpEnteredDropped(s, ans) == s

\* lines 194-195: the answer of the OTP prompt becomes the retained passcode
OtpEntered(s, ans) == [s EXCEPT !.login_otp = ans]

\* lines 192-210: the OTP is asked for and the login call repeated with it
OtpRetry ==
    /\ pc = "otp"
    /\ \E ans \in TypedOtps, outcome \in LoginOutcomes, built \in BOOLEAN :
         LET s == OtpEntered(self, ans)
             h == Handler(options, outcome, FALSE)
         IN  /\ self' = s
             /\ logins' = Append(logins, LoginRequest(s, options, cli, local))
             /\ io' = [io EXCEPT
                         !.otp_input = @ + 1,
                         !.otp_typed = ans,
                         !.answers = Append(@, outcome),
                         !.printed = (@ \cup {"One Time Passcode Sent"})
                                       \cup Reported(h)]
             /\ pc' = PcAfter(h)
             /\ result' = IF h = "raise" THEN outcome ELSE "none"
             /\ visited' = IF h = "return" THEN built ELSE visited
             /\ local' = [local EXCEPT !.attempt = AttemptAfter(h)]
    /\ UNCHANGED <<cli, options, invocations>>

\* lines 230-231: the retained user name and password are dropped
Cleared(s) == [s EXCEPT !.username = None, !.password = None]

\* line 240: the select operation is called when a selector was given
Selects(o) == Truthy(o.selector)

\* What the select operation of the session client may answer.
SelectOutcomes == {"ok", "InstanceNotFoundError", "OtherError"}

\* SelectError with the error of the select operation passed on as it is.
SelectErrorPassedOn(answer) == IF answer = "ok" THEN "none" ELSE answer

\* lines 241-247: any error of the select operation is raised again as
\* InstanceNotFoundError
SelectError(answer) ==
    IF answer = "ok" THEN "none" ELSE "InstanceNotFoundError"

\* lines 230-247: after the try block of the login calls, reached when the
\* login call returned or its unreachable-server error was reported; the
\* warnings of lines 234-238 only print
PostLogin ==
    /\ pc = "postlogin"
    /\ self' = Cleared(self)
    /\ IF Selects(options)
       THEN \E answer \in SelectOutcomes :
              /\ io' = [io EXCEPT !.select = @ + 1, !.selected = answer]
              /\ result' = SelectError(answer)
              /\ pc' = IF SelectError(answer) = "none" THEN "guard"
                        ELSE "done"
       ELSE /\ pc' = "guard"
            /\ UNCHANGED <<io, result>>
    /\ UNCHANGED <<cli, options, local, logins, visited, invocations>>

\* run(), lines 98-99: the help flag in the line ends run() before the guard
SkipsGuard(i) == i.help_in_line

\* PathUnavailable with the test of the visited paths inverted.
PathUnavailableInverted(i, v) == ~SkipsGuard(i) /\ v

\* run(), lines 101-103: no visited path after loginfunction returned
PathUnavailable(i, v) == ~SkipsGuard(i) /\ ~v

\* run(), lines 98-108: without a visited path, logout and PathUnavailableError
RunGuard ==
    /\ pc = "guard"
    /\ IF PathUnavailable(cli, visited)
       THEN /\ io' = [io EXCEPT !.logout = @ + 1]
            /\ result' = "PathUnavailableError"
       ELSE /\ result' = "SUCCESS"
            /\ UNCHANGED io
    /\ pc' = "done"
    /\ UNCHANGED <<self, cli, options, local, logins, visited, invocations>>

\* run() is over: its result went to the caller, and the options, the locals
\* and the arguments of the invocation are gone; the object stays.
Return ==
    /\ pc = "done"
    /\ pc' = "idle"
    /\ cli' = DefaultCli
    /\ options' = DefaultOptions
    /\ local' = NoLocals
    /\ logins' = <<>>
    /\ io' = NoIo
    /\ result' = "none"
    /\ UNCHANGED <<self, visited, invocations>>

Next ==
    \/ \E i \in Inputs : Run(i)
    \/ LoginValidation
    \/ Login
    \/ OtpRetry
    \/ PostLogin
    \/ RunGuard
    \/ Return

Spec == Init /\ [][Next]_vars

(***************************************************************************)
(* Properties.                                                             *)
(***************************************************************************)
\* loginvalidation of the current invocation is over.
PastValidation == pc \notin {"idle", "loginvalidation"} /\ EarlyResult(cli) = "none"

\* The options of the current invocation after the fallback to the
\* configuration of lines 258-267.
AfterFallback == FillFromConfig(cli.options, cli.config)

\* C1: with --wait_for_otp, a first login call answered by the OTP challenge
\* is followed by exactly one OTP prompt and exactly one more login call,
\* which carries the OTP typed; a challenge on that call ends the invocation
\* with the challenge as its error; no invocation makes more than two login
\* calls or prompts twice.
C1_SingleOtpRetry ==
    /\ Len(logins) <= 2
    /\ io.otp_input <= 1
    /\ (/\ pc \in {"postlogin", "guard", "done"}
        /\ cli.options.waitforOTP
        /\ Len(io.answers) >= 1
        /\ io.answers[1] = "OneTimePasscodeError")
       => /\ io.otp_input = 1
          /\ Len(logins) = 2
          /\ io.otp_typed \in TypedOtps
          /\ logins[2].login_otp = io.otp_typed
          /\ io.answers[2] = "OneTimePasscodeError"
               => pc = "done" /\ result = "OneTimePasscodeError"

C1_Witness ==
    /\ pc = "done"
    /\ cli.options.waitforOTP
    /\ io.answers = <<"OneTimePasscodeError", "OneTimePasscodeError">>
    /\ Len(logins) = 2
    /\ result = "OneTimePasscodeError"

\* C2: once an invocation has made its login attempt and is over, the
\* retained user name and password are None, whatever the outcome.
C2_CredentialsClearedAfterAttempt ==
    (pc = "done" /\ Len(logins) >= 1)
       => self.username = None /\ self.password = None

\* C3: every login call carries the proxy resolved by the chain --useproxy,
\* https_proxy, http_proxy, configured proxy.
C3_LoginCarriesResolvedProxy ==
    \A k \in 1..Len(logins) : logins[k].proxy = ResolvedProxy(cli)

\* C4: with a URL argument, an empty user name or password after the
\* fallback to the configuration, and no certificate field with a value on
\* the command line or in the configuration, loginvalidation raises
\* InvalidCommandLineError and no login call is made.
C4_UrlWithoutCredentialsRejected ==
    (/\ PastValidation
     /\ cli.args # <<>>
     /\ ~(Truthy(AfterFallback.user) /\ Truthy(AfterFallback.password))
     /\ ~Truthy(cli.options.user_certificate)
     /\ ~Truthy(cli.options.user_root_ca_key)
     /\ ~Truthy(cli.options.user_root_ca_password)
     /\ ~Truthy(cli.config.user_cert)
     /\ ~Truthy(cli.config.user_root_ca_key)
     /\ ~Truthy(cli.config.user_root_ca_password))
       => result = "InvalidCommandLineError" /\ logins = <<>>

\* A login request carries a certificate field.
HasCertificateData(d) ==
    \/ d.ca_certs # Absent
    \/ d.cert_file # Absent
    \/ d.key_file # Absent
    \/ d.key_password # Absent

\* C5: every login call carries a user name and a password, or a session id,
\* or certificate data, or goes to the local loopback target.
C5_LoginCarriesCredentials ==
    \A k \in 1..Len(logins) :
        \/ Truthy(logins[k].username) /\ Truthy(logins[k].password)
        \/ Truthy(logins[k].sessionid)
        \/ HasCertificateData(logins[k].user_ca_cert_data)
        \/ logins[k].base_url = BLOBSTORE_URL

\* C6: the target of a login call is the URL argument when there is one,
\* else the VNIC address when --force_vnic is given, else the configured
\* URL when there is one, else the local loopback target.
C6_TargetOrder ==
    \A k \in 1..Len(logins) :
        logins[k].base_url =
            IF cli.args # <<>> THEN NormalizeUrl(cli.args[1])
            ELSE IF cli.options.force_vnic THEN VNIC_URL
            ELSE IF cli.config.url # NoUrl THEN cli.config.url
            ELSE BLOBSTORE_URL

\* C7 as claimed: with --force_vnic, no user name and password pair after
\* the fallback to the configuration, no session id, no CA bundle and no
\* user certificate, the invocation ends in UsernamePasswordRequiredError
\* with no probe and no login call.
C7_VnicWithoutPairAfterFallbackFails ==
    (/\ PastValidation
     /\ cli.options.force_vnic
     /\ ~(Truthy(AfterFallback.user) /\ Truthy(AfterFallback.password))
     /\ ~Truthy(AfterFallback.sessionid)
     /\ ~Truthy(AfterFallback.ca_cert_bundle)
     /\ ~Truthy(AfterFallback.user_certificate))
       => /\ result = "UsernamePasswordRequiredError"
          /\ logins = <<>>
          /\ io.probe = "none"

\* loginvalidation is just over (no login call yet) and it got as far as the
\* check of lines 299-302: the password prompt was not answered empty and
\* decoding did not fail.
ReachedVnicCheck ==
    /\ pc \in {"login", "done"}
    /\ logins = <<>>
    /\ EarlyResult(cli) = "none"
    /\ options.force_vnic
    /\ ~(io.getpass = 1 /\ result = "InvalidCommandLineError")
    /\ result # "TypeError"

\* C7, amended: with --force_vnic, when loginvalidation reaches the VNIC
\* check and the object then holds no user name and password pair (after
\* the fallback, the password prompt and decoding, and counting what an
\* earlier invocation left on the object), and there is no session
\* id, no CA bundle and no user certificate, the invocation ends in
\* UsernamePasswordRequiredError with no probe and no login call.
C7_VnicWithoutRetainedPairFails ==
    (/\ ReachedVnicCheck
     /\ ~(Truthy(self.username) /\ Truthy(self.password))
     /\ ~Truthy(options.sessionid)
     /\ ~Truthy(GetAttr(options, "ca_cert_bundle"))
     /\ ~Truthy(GetAttr(options, "user_certificate")))
       => /\ pc = "done"
          /\ result = "UsernamePasswordRequiredError"
          /\ io.probe = "none"

C7_Witness ==
    /\ pc = "done"
    /\ cli.options.force_vnic
    /\ ~Truthy(self.username)
    /\ Truthy(self.password)
    /\ result = "UsernamePasswordRequiredError"
    /\ logins = <<>>
    /\ io.probe = "none"

\* What the guard of run() does for the visited paths v.
GuardOutcome(v) ==
    IF v THEN io.logout = 0 /\ result = "SUCCESS"
    ELSE io.logout = 1 /\ result = "PathUnavailableError"

\* C8 as claimed: after a login that succeeded, run() ends in one logout and
\* PathUnavailableError when no path was visited, and in SUCCESS without a
\* logout when one was.
C8_GuardAfterEveryLogin ==
    (pc = "done" /\ local.attempt = "AUTHENTICATED") => GuardOutcome(visited)

\* C8, amended: the same, for invocations whose select operation, if any,
\* did not fail and whose line does not hold the help flag.
C8_GuardAfterLogin ==
    (/\ pc = "done"
     /\ local.attempt = "AUTHENTICATED"
     /\ result # "InstanceNotFoundError"
     /\ ~cli.help_in_line)
       => GuardOutcome(visited)

C8_Witness ==
    /\ pc = "done"
    /\ local.attempt = "AUTHENTICATED"
    /\ ~visited
    /\ io.logout = 1
    /\ result = "PathUnavailableError"

\* C9: a login attempt that ended in the reported unreachable-server state
\* ends run() without an error, the report printed.  Stated for invocations
\* without a selector, where nothing but the guard of run() follows the
\* report.
C9_UnreachableEndsWithoutError ==
    (pc = "done" /\ local.attempt = "FAILED" /\ ~Truthy(cli.options.selector))
       => result = "SUCCESS" /\ UnreachableMessage \in io.printed

\* C10: the select operation is called only with a selector given and the
\* login attempt AUTHENTICATED.
C10_SelectOnlyWhenAuthenticated ==
    io.select > 0
       => Truthy(cli.options.selector) /\ local.attempt = "AUTHENTICATED"


\* What loginvalidation retains from the options of the current invocation
\* alone (after the fallback to the configuration and the password prompt),
\* on an object no earlier invocation has touched.
RetainedAlone ==
    RetainBios(Decoded(Retain(Constructed, options), options).self, options)

\* C11: the user name, password and BIOS password of every login call are
\* those of the current invocation's options and configuration alone; a
\* value given only to an earlier invocation is not passed on.
C11_LoginCredentialsOfThisInvocation ==
    \A k \in 1..Len(logins) :
        /\ logins[k].username = RetainedAlone.username
        /\ logins[k].password = RetainedAlone.password
        /\ logins[k].biospassword = RetainedAlone.biospassword


\* A certificate field of the options has a value (given, or taken from the
\* configuration for an attribute the parser does not define).
CertificateFieldSet ==
    \/ Truthy(options.user_certificate)
    \/ Truthy(options.user_root_ca_key)
    \/ Truthy(options.user_root_ca_password)

\* C12: with a certificate field set and no ca_cert_bundle given, the
\* descriptor of every login call was built with no_bundle true and has no
\* ca_certs entry.
C12_CertificateFieldDisablesBundle ==
    \A k \in 1..Len(logins) :
        (CertificateFieldSet /\ ~Truthy(cli.options.ca_cert_bundle))
           => /\ local.no_bundle
              /\ logins[k].user_ca_cert_data.ca_certs = Absent

C12_Witness ==
    /\ Len(logins) >= 1
    /\ ~Truthy(options.user_certificate)
    /\ Truthy(options.user_root_ca_key)
    /\ ~Truthy(cli.options.ca_cert_bundle)
    /\ local.no_bundle
    /\ logins[1].user_ca_cert_data.key_file = options.user_root_ca_key
    /\ logins[1].user_ca_cert_data.ca_certs = Absent


\* C13: the password prompt is shown exactly when, after the fallback to the
\* configuration, there is a user name, no password and no certificate
\* field with a value.
C13_PromptExactlyWithoutPasswordAndCertificate ==
    PastValidation
       => (io.getpass = 1
             <=> /\ Truthy(AfterFallback.user)
                 /\ ~Truthy(AfterFallback.password)
                 /\ ~Truthy(AfterFallback.user_certificate)
                 /\ ~Truthy(AfterFallback.user_root_ca_key)
                 /\ ~Truthy(AfterFallback.user_root_ca_password))


\* No URL argument, no --force_vnic and no URL in the configuration.
LocalMode ==
    /\ cli.args = <<>>
    /\ ~cli.options.force_vnic
    /\ cli.config.url = NoUrl

\* Neither the command line nor the configuration holds a user name, a
\* password, a session id or certificate data.
NoCredentialsAvailable ==
    /\ ~Truthy(AfterFallback.user)
    /\ ~Truthy(AfterFallback.password)
    /\ ~Truthy(AfterFallback.sessionid)
    /\ ~Truthy(AfterFallback.ca_cert_bundle)
    /\ ~Truthy(AfterFallback.user_certificate)
    /\ ~Truthy(AfterFallback.user_root_ca_key)
    /\ ~Truthy(AfterFallback.user_root_ca_password)

\* loginvalidation returned without an error and without a prompt: the
\* login call is next, or was made.
ProceedsToLogin ==
    /\ io.getpass = 0
    /\ pc = "login" \/ Len(logins) >= 1

NoOtpRetryDue ==
    /\ Len(io.answers) >= 1
    /\ ~(cli.options.waitforOTP /\ io.answers[1] = "OneTimePasscodeError")

\* C15: the OTP prompt is shown only with --wait_for_otp and a first login
\* call answered by the OTP challenge.  In every other case there is one
\* login call and no prompt, in both modes alike: an unreachable server is
\* reported and not raised, any other error (the OTP challenge without the
\* flag among them) ends the invocation as it is.
C15_OtpPromptOnlyOnChallengeWithFlag ==
    /\ io.otp_input >= 1
         => cli.options.waitforOTP /\ io.answers[1] = "OneTimePasscodeError"
    /\ NoOtpRetryDue
         => /\ Len(logins) = 1
            /\ io.otp_input = 0
            /\ io.answers[1] = "ServerDownOrUnreachableError"
                 => /\ local.attempt = "FAILED"
                    /\ UnreachableMessage \in io.printed
                    /\ result # "ServerDownOrUnreachableError"
            /\ io.answers[1] \in {"OneTimePasscodeError", "OtherError"}
                 => /\ pc = "done"
                    /\ local.attempt = "RAISED"
                    /\ result = io.answers[1]

C15_Witness ==
    /\ pc = "done"
    /\ ~cli.options.waitforOTP
    /\ io.answers = <<"OneTimePasscodeError">>
    /\ Len(logins) = 1
    /\ io.otp_input = 0
    /\ result = "OneTimePasscodeError"


\* The password prompt of this invocation was answered with nothing but
\* white space.
EmptyPasswordTyped == io.getpass = 1 /\ ~Truthy(RStrip(io.getpass_typed))

\* C16: an empty answer to the password prompt ends the invocation in
\* InvalidCommandLineError with no probe and no login call, and the step
\* that took the answer leaves the retained password as it was.
C16_EmptyPasswordEndsInvocation ==
    /\ [](EmptyPasswordTyped
            => /\ pc = "done"
               /\ result = "InvalidCommandLineError"
               /\ logins = <<>>
               /\ io.probe = "none")
    /\ [][EmptyPasswordTyped' => self'.password = self.password]_vars

C16_Witness ==
    /\ pc = "done"
    /\ io.getpass = 1
    /\ io.getpass_typed = " "
    /\ result = "InvalidCommandLineError"
    /\ logins = <<>>
    /\ io.probe = "none"


\* C17: the retry login call after an OTP challenge carries the same
\* arguments as the first login call of the invocation, but for login_otp,
\* which is what was typed at the OTP prompt.
C17_OtpRetryRepeatsFirstCall ==
    Len(logins) = 2
      => /\ [logins[2] EXCEPT !.login_otp = logins[1].login_otp] = logins[1]
         /\ logins[2].login_otp = io.otp_typed
         /\ io.otp_input = 1

C17_Witness ==
    /\ Len(logins) = 2
    /\ logins[1].login_otp = "111111"
    /\ logins[2].login_otp = "222222"
    /\ logins[2].username = "admin"
    /\ logins[2].password = "secret"
    /\ logins[2].is_redfish
    /\ logins[2].biospassword = "biospw"


\* Every way the probe of lines 165-170 can end: connected, refused, or not
\* attempted for want of a positional argument.
AllProbeOutcomes == {"ok", "fail", "noarg"}

\* What a login step leaves behind, without the record of how the probe ended.
ProbeErased(n) == [n EXCEPT !.io.probe = "none"]

BundleSupplied == Truthy(GetAttr(cli.options, "ca_cert_bundle"))

\* C19: the certificate descriptor of a login call has a ca_certs entry
\* exactly when a non-empty ca_cert_bundle was given on the command line,
\* and then the entry is that bundle, with or without certificate fields.
C19_CaCertsIffBundleSupplied ==
    \A k \in 1..Len(logins) :
        /\ (logins[k].user_ca_cert_data.ca_certs # Absent) <=> BundleSupplied
        /\ BundleSupplied
             => logins[k].user_ca_cert_data.ca_certs
                  = cli.options.ca_cert_bundle

\* A bundle given without any certificate field: the removal of lines
\* 158-160 is reached and leaves the entry in place.
C19_Witness ==
    /\ Len(logins) >= 1
    /\ BundleSupplied
    /\ ~local.no_bundle
    /\ logins[1].user_ca_cert_data.ca_certs = "bundle.pem"
    /\ logins[1].user_ca_cert_data.cert_file = Absent


\* The select operation of this invocation failed.
SelectFailed == io.selected \notin {"none", "ok"}

\* C20: when the select operation fails, whatever its error, the invocation
\* has ended in InstanceNotFoundError, a selector had been given, and the
\* retained user name and password are cleared.
C20_SelectFailureIsInstanceNotFound ==
    SelectFailed
      => /\ pc = "done"
         /\ result = "InstanceNotFoundError"
         /\ Truthy(options.selector)
         /\ self.username = None
         /\ self.password = None

\* A login with credentials whose select fails with another error.
C20_Witness ==
    /\ io.selected = "OtherError"
    /\ result = "InstanceNotFoundError"
    /\ pc = "done"
    /\ Len(logins) = 1
    /\ logins[1].username = "admin"
    /\ logins[1].password = "secret"
    /\ self.username = None
    /\ self.password = None

====
